---------------------------- MODULE Spec2Model ----------------------------
(***************************************************************************)
(* A model of fluidpath.Path (src/fluidpath/path.py): a pathlib path       *)
(* paired with a semantic type (FILE / DIRECTORY), and the queries that    *)
(* reconcile the semantic type with what the filesystem holds.             *)
(*                                                                         *)
(* Strings are sequences of one-character strings, so that parsing,       *)
(* normalisation and rendering are computed and not assumed.  The          *)
(* platform is POSIX (os.path.sep = "/").  The filesystem is a finite     *)
(* tree with symbolic links; the working directory is the root.            *)
(***************************************************************************)
EXTENDS Integers, Sequences, FiniteSets, TLC

VARIABLES
    fs,     \* the filesystem: location (sequence of names) -> entry
    p,      \* the Path value under consideration
    last    \* the last call made on p and what it gave

vars == <<fs, p, last>>

---------------------------------------------------------------------------
(* Bounds of the model. *)

\* most entries the filesystem holds at once
MaxEntries == 2
\* most components of a path followed further, and most segments handed to
\* the constructor at once
MaxParts == 2
\* longest segment string handed to the constructor, a join or from_uri
MaxSegLen == 2
\* most symbolic links one lookup follows before the OS gives ELOOP
MaxFollow == 4

---------------------------------------------------------------------------
(* Strings. *)

Sep == "/"
Dot == <<".">>
DotDot == <<".", ".">>

StartsWith(s, pre) ==
    /\ Len(s) >= Len(pre)
    /\ SubSeq(s, 1, Len(pre)) = pre

EndsWith(s, suf) ==
    /\ Len(s) >= Len(suf)
    /\ SubSeq(s, Len(s) - Len(suf) + 1, Len(s)) = suf

RECURSIVE LStripSep(_)
\* str.lstrip("/")
LStripSep(s) ==
    IF s # <<>> /\ Head(s) = Sep THEN LStripSep(Tail(s)) ELSE s

RECURSIVE SplitSep(_)
\* str.split("/"): the pieces between the separators, at least one piece
SplitSep(s) ==
    IF s = <<>> THEN << <<>> >>
    ELSE LET rest == SplitSep(Tail(s))
         IN  IF Head(s) = Sep
             THEN << <<>> >> \o rest
             ELSE << <<Head(s)>> \o Head(rest) >> \o Tail(rest)

RECURSIVE JoinSep(_)
\* "/".join(parts)
JoinSep(parts) ==
    IF parts = <<>> THEN <<>>
    ELSE IF Len(parts) = 1 THEN Head(parts)
    ELSE Head(parts) \o <<Sep>> \o JoinSep(Tail(parts))

RECURSIVE StrUpTo(_, _)
\* every string over the alphabet of at most n characters
StrUpTo(alphabet, n) ==
    IF n = 0 THEN { <<>> }
    ELSE LET S == StrUpTo(alphabet, n - 1)
         IN  S \cup { Append(s, c) : s \in S, c \in alphabet }

---------------------------------------------------------------------------
(* pathlib.PurePosixPath and os.path, as Path uses them. *)

\* PurePosixPath's splitroot: exactly two leading slashes are kept as "//"
splitroot(part) ==
    IF part # <<>> /\ Head(part) = Sep
    THEN LET stripped == LStripSep(part)
         IN  [root |-> IF Len(part) - Len(stripped) = 2
                       THEN <<Sep, Sep>> ELSE <<Sep>>,
              rel  |-> stripped]
    ELSE [root |-> <<>>, rel |-> part]

RECURSIVE parse_loop(_, _, _)
\* the constructor's walk over the segments from the last to the first,
\* stopping at the first rooted one; empty and "." components are dropped
parse_loop(segments, i, parsed) ==
    IF i = 0 THEN [root |-> <<>>, parts |-> parsed]
    ELSE LET part == segments[i]
         IN  IF part = <<>> THEN parse_loop(segments, i - 1, parsed)
             ELSE LET sr    == splitroot(part)
                      comps == SelectSeq(SplitSep(sr.rel),
                                         LAMBDA x : x # <<>> /\ x # Dot)
                      acc   == comps \o parsed
                  IN  IF sr.root # <<>>
                      THEN [root |-> sr.root, parts |-> acc]
                      ELSE parse_loop(segments, i - 1, acc)

\* pathlib.Path(*segments)
pathlib_Path(segments) == parse_loop(segments, Len(segments), <<>>)

\* str(pathlib.Path): the root and the joined parts, "." when there is nothing
pathlib_str(path) ==
    IF path.root = <<>> /\ path.parts = <<>> THEN Dot
    ELSE path.root \o JoinSep(path.parts)

RECURSIVE norm_loop(_, _, _)
\* os.path.normpath's loop over the components
norm_loop(comps, initial_slashes, new_comps) ==
    IF comps = <<>> THEN new_comps
    ELSE LET comp == Head(comps)
             n    == Len(new_comps)
         IN  IF comp = <<>> \/ comp = Dot
             THEN norm_loop(Tail(comps), initial_slashes, new_comps)
             ELSE IF \/ comp # DotDot
                     \/ (initial_slashes = 0 /\ n = 0)
                     \/ (n > 0 /\ new_comps[n] = DotDot)
             THEN norm_loop(Tail(comps), initial_slashes, Append(new_comps, comp))
             ELSE IF n > 0
             THEN norm_loop(Tail(comps), initial_slashes, SubSeq(new_comps, 1, n - 1))
             ELSE norm_loop(Tail(comps), initial_slashes, new_comps)

\* os.path.normpath
normpath(path) ==
    IF path = <<>> THEN Dot
    ELSE LET initial_slashes ==
                 IF ~StartsWith(path, <<Sep>>) THEN 0
                 ELSE IF StartsWith(path, <<Sep, Sep>>)
                         /\ ~StartsWith(path, <<Sep, Sep, Sep>>) THEN 2
                 ELSE 1
             comps == norm_loop(SplitSep(path), initial_slashes, <<>>)
             lead  == IF initial_slashes = 2 THEN <<Sep, Sep>>
                      ELSE IF initial_slashes = 1 THEN <<Sep>> ELSE <<>>
             res   == lead \o JoinSep(comps)
         IN  IF res = <<>> THEN Dot ELSE res

\* pathlib's parent: the last part dropped; the anchor and "." are their own parent
pathlib_parent(path) ==
    IF path.parts = <<>> THEN path
    ELSE [root |-> path.root, parts |-> SubSeq(path.parts, 1, Len(path.parts) - 1)]

\* pathlib's absolute(): the working directory (the root) in front of a relative path
pathlib_absolute(path) ==
    IF path.root # <<>> THEN path
    ELSE [root |-> <<Sep>>, parts |-> path.parts]

\* pathlib's joinpath and `/`: a rooted argument replaces the path, any other
\* one appends its parts
pathlib_joinpath(path, other) ==
    LET parsed == pathlib_Path(other)
    IN  IF parsed.root # <<>> THEN parsed
        ELSE [root |-> path.root, parts |-> path.parts \o parsed.parts]

---------------------------------------------------------------------------
(* Semantic path type. *)

FILE == "FILE"
DIRECTORY == "DIRECTORY"

\* SemanticPathType's value: the marker str() appends
SemanticValue(t) == IF t = DIRECTORY THEN <<Sep>> ELSE <<>>

\* identify_semantic_path_type without the "." and ".." case
identify_semantic_path_type_NoDots(path) ==
    IF EndsWith(path, <<Sep>>) THEN "DIRECTORY" ELSE "FILE"

identify_semantic_path_type(path) ==
    IF path = Dot \/ path = DotDot THEN DIRECTORY
    ELSE IF EndsWith(path, <<Sep>>) THEN DIRECTORY
    ELSE FILE

---------------------------------------------------------------------------
(* Results of calls: a value returned or an exception raised. *)

Ret(v) == [exc |-> "none", val |-> v]
Raise(e) == [exc |-> e]

Returned(r, v) == r.exc = "none" /\ r.val = v

\* the element of a one-element set; Only({ e(x) : x \in {v} }) is e(v) with v
\* evaluated once, as a local variable of the code is
Only(S) == CHOOSE r \in S : TRUE

\* the exception classes that are OSError or derive from it
OSErrors == {"OSError", "FileNotFoundError", "NotADirectoryError", "PermissionError",
             "IsADirectoryError", "FileExistsError"}

access_error_handler(res) ==
    Only({ IF r.exc = "none" THEN r
           ELSE IF r.exc = "FileNotFoundError" THEN Raise("FileNotFoundError")
           ELSE IF r.exc = "PermissionError" THEN Raise("PermissionError")
           ELSE IF r.exc \in OSErrors THEN Raise("OSError")
           ELSE r
         : r \in {res} })

---------------------------------------------------------------------------
(* Path: construction, rendering, equality. *)

MkPath(path, semantic_path_type) == [path |-> path, sem |-> semantic_path_type]

\* Path._from_pathlib_path
from_pathlib_path(path, semantic_path_type) == MkPath(path, semantic_path_type)

\* Path(*segments), the segments being strings
Path_init(segments) ==
    MkPath(pathlib_Path(segments),
           IF segments = <<>> THEN DIRECTORY
           ELSE identify_semantic_path_type(segments[Len(segments)]))

Path_str(q) == normpath(pathlib_str(q.path)) \o SemanticValue(q.sem)

Path_eq(q, r) == Path_str(q) = Path_str(r)

Path_absolute(q) == from_pathlib_path(pathlib_absolute(q.path), q.sem)

\* Path.parent keeping the receiver's semantic type
Path_parent_KeepSem(q) == from_pathlib_path(pathlib_parent(q.path), q.sem)

Path_parent(q) == from_pathlib_path(pathlib_parent(q.path), DIRECTORY)

\* q / other, other being a string
Path_truediv(q, other) ==
    from_pathlib_path(pathlib_joinpath(q.path, <<other>>),
                      identify_semantic_path_type(other))

\* q.join_path(*other), the segments being strings
Path_join_path(q, other) ==
    IF other = <<>> THEN q
    ELSE from_pathlib_path(pathlib_joinpath(q.path, other),
                           identify_semantic_path_type(other[Len(other)]))

\* the scheme a file URI starts with
FileScheme == <<"f", "i", "l", "e", ":", Sep, Sep>>

\* Path.from_uri: what follows "file://" is taken as the path
Path_from_uri(uri) ==
    IF ~StartsWith(uri, FileScheme) THEN Raise("ValueError")
    ELSE LET filepath == SubSeq(uri, Len(FileScheme) + 1, Len(uri))
         IN  Ret(from_pathlib_path(pathlib_Path(<<filepath>>),
                                   identify_semantic_path_type(filepath)))

---------------------------------------------------------------------------
(* Segments of any type: strings, semantically typed paths (objects with   *)
(* __fspath__ and __semantic_path_type__), plain path-likes (pathlib       *)
(* paths, which have __fspath__ only) and values that are no path at all.  *)

\* what stands for the semantic type of a value that has none
UNTYPED == "UNTYPED"

StrArg(s) == [kind |-> "str", fspath |-> s, sem |-> UNTYPED]
SemanticArg(q) == [kind |-> "semantic", fspath |-> pathlib_str(q.path), sem |-> q.sem]
PathlibArg(path) == [kind |-> "pathlib", fspath |-> pathlib_str(path), sem |-> UNTYPED]
IntArg == [kind |-> "int", fspath |-> <<>>, sem |-> UNTYPED]

\* a pathlib path as a result: a path value that carries no semantic type
MkPlain(path) == [path |-> path, sem |-> UNTYPED]

\* q.join_path(*other) taking the semantic type from the first segment
Path_join_path_any_First(q, other) ==
    IF other = <<>> THEN Ret(q)
    ELSE Ret(from_pathlib_path(pathlib_joinpath(q.path, [i \in 1..Len(other) |-> other[i].fspath]),
                               IF other[1].kind = "semantic" THEN other[1].sem
                               ELSE IF other[1].fspath # <<>> /\ other[1].fspath[Len(other[1].fspath)] = Sep
                               THEN "DIRECTORY" ELSE "FILE"))

\* Path._identify_semantic_path_type
Path_identify_semantic_path_type(arg) ==
    IF arg.kind = "semantic" THEN Ret(arg.sem)
    ELSE IF arg.kind = "str" THEN Ret(identify_semantic_path_type(arg.fspath))
    ELSE Raise("TypeError")

\* os.fspath of every segment, as pathlib takes them; a segment that is no
\* string and has no __fspath__ is a TypeError
fspaths(args) ==
    IF \E i \in 1..Len(args) : args[i].kind = "int" THEN Raise("TypeError")
    ELSE Ret([i \in 1..Len(args) |-> args[i].fspath])

\* Path(*segments), the segments being of any type
Path_new(args) ==
    Only({ IF semantics.exc # "none" THEN Raise("TypeError")
           ELSE Only({ IF strs.exc # "none" THEN strs
                       ELSE Ret(MkPath(pathlib_Path(strs.val), semantics.val))
                     : strs \in { fspaths(args) } })
         : semantics \in { IF args = <<>> THEN Ret(DIRECTORY)
                           ELSE Path_identify_semantic_path_type(args[Len(args)]) } })

\* q.join_path(*other), the segments being of any type
Path_join_path_any(q, other) ==
    IF other = <<>> THEN Ret(q)
    ELSE Only({ IF semantics.exc # "none" THEN Raise("TypeError")
                ELSE Only({ IF strs.exc # "none" THEN strs
                            ELSE Ret(from_pathlib_path(pathlib_joinpath(q.path, strs.val),
                                                       semantics.val))
                          : strs \in { fspaths(other) } })
              : semantics \in { Path_identify_semantic_path_type(other[Len(other)]) } })

\* the answer of an operator method that does not handle its operand
NotImplemented == [exc |-> "NotImplemented"]

\* Path.__truediv__, other being of any type
Path_truediv_any(q, other) ==
    IF other.kind \notin {"str", "semantic"} THEN NotImplemented
    ELSE Ret(from_pathlib_path(pathlib_joinpath(q.path, <<other.fspath>>),
                               Path_identify_semantic_path_type(other).val))

\* the expression q / other: when q's __truediv__ answers NotImplemented the
\* interpreter asks other's __rtruediv__, which pathlib paths have and which
\* joins other onto os.fspath(q); with no answer from either it is a TypeError
truediv_expr(q, other) ==
    Only({ IF r.exc # "NotImplemented" THEN r
           ELSE IF other.kind = "pathlib"
           THEN Ret(MkPlain(pathlib_joinpath(q.path, <<other.fspath>>)))
           ELSE Raise("TypeError")
         : r \in { Path_truediv_any(q, other) } })

---------------------------------------------------------------------------
(* The filesystem, as the OS presents it. *)

\* names of directory entries
FsNames == { <<"a">>, <<"b">> }

\* the locations an entry can be at: one or two names below the root
Locs == { <<n>> : n \in FsNames } \cup { <<n, m>> : n \in FsNames, m \in FsNames }

\* the file-type field of st_mode; S_IFWHT stands for a type `stat` has no predicate for
S_IFREG == "S_IFREG"
S_IFDIR == "S_IFDIR"
S_IFLNK == "S_IFLNK"
S_IFIFO == "S_IFIFO"
S_IFCHR == "S_IFCHR"
S_IFBLK == "S_IFBLK"
S_IFSOCK == "S_IFSOCK"
S_IFWHT == "S_IFWHT"
ABSENT == "ABSENT"

NoEntry == [mode |-> ABSENT, target |-> <<>>]
Entry(mode) == [mode |-> mode, target |-> <<>>]
Link(target) == [mode |-> S_IFLNK, target |-> target]

EmptyFs == [l \in Locs |-> NoEntry]

\* the entry at a location; the root is a directory, and nothing lies outside
\* the locations f describes
Lookup(f, loc) ==
    IF loc = <<>> THEN Entry(S_IFDIR)
    ELSE IF loc \in DOMAIN f THEN f[loc]
    ELSE NoEntry

ParentLoc(loc) == IF loc = <<>> THEN <<>> ELSE SubSeq(loc, 1, Len(loc) - 1)

Found(loc, mode) == [err |-> "OK", loc |-> loc, mode |-> mode]
Errno(e) == [err |-> e]

RECURSIVE Walk(_, _, _, _, _)
\* the kernel's path walk from directory cur over the components rest:
\* symbolic links in the middle are followed, the last one only if follow
Walk(f, cur, rest, follow, fuel) ==
    IF rest = <<>> THEN Found(cur, Lookup(f, cur).mode)
    ELSE LET name == Head(rest)
             more == Tail(rest)
             new  == Append(cur, name)
             e    == Lookup(f, new)
         IN  IF name = DotDot THEN Walk(f, ParentLoc(cur), more, follow, fuel)
             ELSE IF e.mode = ABSENT THEN Errno("ENOENT")
             ELSE IF e.mode = S_IFLNK
             THEN IF more = <<>> /\ ~follow THEN Found(new, S_IFLNK)
                  ELSE IF fuel = 0 THEN Errno("ELOOP")
                  ELSE LET t == pathlib_Path(<<e.target>>)
                       IN  Walk(f, IF t.root # <<>> THEN <<>> ELSE cur,
                                t.parts \o more, follow, fuel - 1)
             ELSE IF e.mode = S_IFDIR THEN Walk(f, new, more, follow, fuel)
             ELSE IF more = <<>> THEN Found(new, e.mode)
             ELSE Errno("ENOTDIR")

\* os.stat / os.lstat of a pathlib path; a relative path starts at the
\* working directory, which is the root
os_stat(f, path, follow_symlinks) == Walk(f, <<>>, path.parts, follow_symlinks, MaxFollow)

RECURSIVE joinrealpath(_, _, _, _, _)
\* posixpath._joinrealpath: path is resolved so far, rest is still to do
joinrealpath(f, path, rest, strict, fuel) ==
    IF rest = <<>> THEN Found(path, Lookup(f, path).mode)
    ELSE LET name    == Head(rest)
             more    == Tail(rest)
             newpath == Append(path, name)
             st      == Walk(f, <<>>, newpath, FALSE, MaxFollow)
         IN  IF name = DotDot THEN joinrealpath(f, ParentLoc(path), more, strict, fuel)
             ELSE IF st.err # "OK"
             THEN IF strict THEN Errno(st.err)
                  ELSE joinrealpath(f, newpath, more, strict, fuel)
             ELSE IF st.mode # S_IFLNK THEN joinrealpath(f, newpath, more, strict, fuel)
             ELSE IF fuel = 0 THEN Errno("ELOOP")
             ELSE LET t == pathlib_Path(<<Lookup(f, newpath).target>>)
                  IN  joinrealpath(f, IF t.root # <<>> THEN <<>> ELSE path,
                                   t.parts \o more, strict, fuel - 1)

\* os.path.realpath
realpath(f, path, strict) == joinrealpath(f, <<>>, path.parts, strict, MaxFollow)

\* the exception os raises for an errno
ErrnoExc(e) ==
    IF e = "ENOENT" THEN "FileNotFoundError"
    ELSE IF e = "ENOTDIR" THEN "NotADirectoryError"
    ELSE "OSError"

\* pathlib.Path.stat
pathlib_stat(f, path, follow_symlinks) ==
    LET st == os_stat(f, path, follow_symlinks)
    IN  IF st.err = "OK" THEN Ret(st.mode) ELSE Raise(ErrnoExc(st.err))

\* pathlib.Path.is_dir: a failing stat is False, never an error
pathlib_is_dir(f, path) ==
    LET st == os_stat(f, path, TRUE)
    IN  st.err = "OK" /\ st.mode = S_IFDIR

\* pathlib.Path.resolve: the absolute path of realpath's answer
pathlib_resolve(f, path, strict) ==
    LET r == realpath(f, path, strict)
    IN  IF r.err = "OK" THEN Ret([root |-> <<Sep>>, parts |-> r.loc])
        ELSE IF r.err = "ELOOP" THEN Raise("RuntimeError")
        ELSE Raise(ErrnoExc(r.err))

\* no lookup of an existing link runs into a chain of links longer than MaxFollow
LoopFree(f) ==
    \A l \in Locs :
        f[l].mode = S_IFLNK => Walk(f, <<>>, l, TRUE, MaxFollow).err # "ELOOP"

\* every entry lies in a directory
WellFormed(f) ==
    \A l \in DOMAIN f :
        (f[l].mode # ABSENT /\ Len(l) > 1) => f[ParentLoc(l)].mode = S_IFDIR

NumEntries(f) == Cardinality({ l \in Locs : f[l].mode # ABSENT })

---------------------------------------------------------------------------
(* Physical path type. *)

identify_st_mode(mode) ==
    IF mode = S_IFREG THEN "REGULAR_FILE"
    ELSE IF mode = S_IFDIR THEN "DIRECTORY"
    ELSE IF mode = S_IFLNK THEN "SYMLINK"
    ELSE IF mode = S_IFIFO THEN "PIPE"
    ELSE IF mode = S_IFCHR THEN "CHAR_DEVICE"
    ELSE IF mode = S_IFBLK THEN "BLOCK_DEVICE"
    ELSE IF mode = S_IFSOCK THEN "SOCKET"
    ELSE "UNKNOWN"

---------------------------------------------------------------------------
(* Path: the queries against the filesystem f. *)

Path_stat(f, q, follow_symlinks) ==
    access_error_handler(pathlib_stat(f, q.path, follow_symlinks))

\* Path_exists without the check of the semantic type against the physical type
Path_exists_AnyType(f, q, follow_symlinks, strict) ==
    access_error_handler(Only({
        IF st.exc \in {"FileNotFoundError", "NotADirectoryError"} THEN Ret(FALSE)
        ELSE IF st.exc # "none" THEN st
        ELSE Ret(TRUE)
      : st \in { Path_stat(f, q, follow_symlinks) } }))

Path_exists(f, q, follow_symlinks, strict) ==
    access_error_handler(Only({
        IF st.exc \in {"FileNotFoundError", "NotADirectoryError"} THEN Ret(FALSE)
        ELSE IF st.exc # "none" THEN st
        ELSE IF ~strict THEN Ret(TRUE)
        ELSE IF q.sem = DIRECTORY
        THEN Ret(identify_st_mode(st.val) = "DIRECTORY")
        ELSE Ret(identify_st_mode(st.val) \notin {"DIRECTORY", "UNKNOWN"})
      : st \in { Path_stat(f, q, follow_symlinks) } }))

\* the part of Path_type after the existence check has answered ex
type_after_exists(f, q, ex) ==
    IF ex.exc # "none" THEN ex
    ELSE IF ~ex.val THEN Ret("DOES_NOT_EXIST")
    ELSE Only({ IF st.exc # "none" THEN st ELSE Ret(identify_st_mode(st.val))
              : st \in { Path_stat(f, q, FALSE) } })

Path_type(f, q) ==
    access_error_handler(Only({
        type_after_exists(f, q, ex) : ex \in { Path_exists(f, q, FALSE, FALSE) } }))

\* Path_resolve keeping the receiver's semantic type when the resolution succeeds
Path_resolve_KeepSem(f, q, strict) ==
    access_error_handler(Only({
        IF r.exc = "FileNotFoundError"
        THEN Ret(from_pathlib_path(pathlib_absolute(q.path), q.sem))
        ELSE IF r.exc # "none" THEN r
        ELSE Ret(from_pathlib_path(r.val, q.sem))
      : r \in { pathlib_resolve(f, q.path, strict) } }))

Path_resolve(f, q, strict) ==
    access_error_handler(Only({
        IF r.exc = "FileNotFoundError"
        THEN Ret(from_pathlib_path(pathlib_absolute(q.path), q.sem))
        ELSE IF r.exc # "none" THEN r
        ELSE Ret(from_pathlib_path(r.val,
                    IF pathlib_is_dir(f, r.val) THEN DIRECTORY ELSE FILE))
      : r \in { pathlib_resolve(f, q.path, strict) } }))

Path_conform_to_filesystem(f, q) ==
    access_error_handler(Only({
        Ret(from_pathlib_path(target,
                IF pathlib_is_dir(f, target) THEN DIRECTORY ELSE FILE))
      : target \in { pathlib_Path(<<normpath(Path_str(q))>>) } }))

\* the path is_directory and is_file look at: q resolved, or q itself
query_target(f, q, follow_symlinks) ==
    IF follow_symlinks THEN Path_resolve(f, q, FALSE) ELSE Ret(q)

\* the type of the path a query looks at, or the exception met on the way
query_type(f, q, follow_symlinks) ==
    Only({ IF target.exc # "none" THEN target ELSE Path_type(f, target.val)
         : target \in { query_target(f, q, follow_symlinks) } })

Path_is_directory(f, q, follow_symlinks, must_exist) ==
    access_error_handler(Only({
        IF type.exc # "none" THEN type
        ELSE IF type.val = "DIRECTORY" THEN Ret(TRUE)
        ELSE IF type.val = "DOES_NOT_EXIST"
        THEN IF must_exist THEN Ret(FALSE) ELSE Ret(q.sem = DIRECTORY)
        ELSE Ret(FALSE)
      : type \in { query_type(f, q, follow_symlinks) } }))

Path_is_file(f, q, follow_symlinks, must_exist) ==
    access_error_handler(Only({
        IF type.exc # "none" THEN type
        ELSE IF type.val \notin {"DIRECTORY", "UNKNOWN"} THEN Ret(TRUE)
        ELSE IF type.val = "DOES_NOT_EXIST"
        THEN IF must_exist THEN Ret(FALSE) ELSE Ret(q.sem = FILE)
        ELSE Ret(FALSE)
      : type \in { query_type(f, q, follow_symlinks) } }))

---------------------------------------------------------------------------
(* The filesystem model's inputs. *)

\* the file types another program may leave in the tree
FileModes == {S_IFREG, S_IFDIR, S_IFIFO, S_IFWHT}

\* what a symbolic link may point to
LinkTargets == { <<Sep, "a">>, <<Sep, "b">>, <<"b">>, <<Sep, "a", Sep, "b">> }

RECURSIVE SeqsUpTo(_, _)
\* every sequence over S of at most n elements
SeqsUpTo(S, n) ==
    IF n = 0 THEN { <<>> }
    ELSE LET T == SeqsUpTo(S, n - 1)
         IN  T \cup { Append(t, x) : t \in T, x \in S }

\* the strings the queried paths are built from: relative or rooted, up to
\* MaxParts components among the names and "..", with or without a trailing "/"
FsPathStrings ==
    { lead \o JoinSep(comps) \o trail :
        lead \in { <<>>, <<Sep>> },
        comps \in SeqsUpTo(FsNames \cup {DotDot}, MaxParts),
        trail \in { <<>>, <<Sep>> } }

Idle == [op |-> "idle"]

Call(op, args, res) == [op |-> op, args |-> args, ret |-> res]

---------------------------------------------------------------------------
(* Actions: other programs change the tree; the program queries its path.  *)
(* A call is one step: `last` records it together with the    *)
(* path and the filesystem it saw, until Forget drops the record.          *)

FsCreate(loc, mode) ==
    /\ last = Idle
    /\ fs[loc].mode = ABSENT
    /\ NumEntries(fs) < MaxEntries
    /\ LET f == [fs EXCEPT ![loc] = Entry(mode)]
       IN  /\ WellFormed(f)
           /\ fs' = f
    /\ last' = Idle
    /\ UNCHANGED p

FsSymlink(loc, target) ==
    /\ last = Idle
    /\ fs[loc].mode = ABSENT
    /\ NumEntries(fs) < MaxEntries
    /\ LET f == [fs EXCEPT ![loc] = Link(target)]
       IN  /\ WellFormed(f)
           /\ LoopFree(f)
           /\ fs' = f
    /\ last' = Idle
    /\ UNCHANGED p

FsRemove(loc) ==
    /\ last = Idle
    /\ fs[loc].mode # ABSENT
    /\ LET f == [fs EXCEPT ![loc] = NoEntry]
       IN  /\ WellFormed(f)
           /\ fs' = f
    /\ last' = Idle
    /\ UNCHANGED p

CallExists(follow_symlinks, strict) ==
    /\ last = Idle
    /\ last' = Call("exists", [follow |-> follow_symlinks, strict |-> strict],
                    Path_exists(fs, p, follow_symlinks, strict))
    /\ UNCHANGED <<fs, p>>

CallType ==
    /\ last = Idle
    /\ last' = Call("type", [follow |-> FALSE], Path_type(fs, p))
    /\ UNCHANGED <<fs, p>>

CallIsDirectory(follow_symlinks, must_exist) ==
    /\ last = Idle
    /\ last' = Call("is_directory", [follow |-> follow_symlinks, must_exist |-> must_exist],
                    Path_is_directory(fs, p, follow_symlinks, must_exist))
    /\ UNCHANGED <<fs, p>>

CallIsFile(follow_symlinks, must_exist) ==
    /\ last = Idle
    /\ last' = Call("is_file", [follow |-> follow_symlinks, must_exist |-> must_exist],
                    Path_is_file(fs, p, follow_symlinks, must_exist))
    /\ UNCHANGED <<fs, p>>

CallResolve(strict) ==
    /\ last = Idle
    /\ last' = Call("resolve", [strict |-> strict], Path_resolve(fs, p, strict))
    /\ UNCHANGED <<fs, p>>

CallConform ==
    /\ last = Idle
    /\ last' = Call("conform_to_filesystem", [follow |-> TRUE],
                    Path_conform_to_filesystem(fs, p))
    /\ UNCHANGED <<fs, p>>

\* the caller has used the result; the next step starts afresh
Forget ==
    /\ last # Idle
    /\ last' = Idle
    /\ UNCHANGED <<fs, p>>

\* the path is built before anything else happens: Path(s) for one string s
Init ==
    /\ fs = EmptyFs
    /\ p \in { Path_init(<<s>>) : s \in FsPathStrings }
    /\ last = Idle

Next ==
    \/ \E loc \in Locs, mode \in FileModes : FsCreate(loc, mode)
    \/ \E loc \in Locs, target \in LinkTargets : FsSymlink(loc, target)
    \/ \E loc \in Locs : FsRemove(loc)
    \/ \E follow_symlinks \in BOOLEAN, strict \in BOOLEAN : CallExists(follow_symlinks, strict)
    \/ CallType
    \/ \E follow_symlinks \in BOOLEAN, must_exist \in BOOLEAN :
           CallIsDirectory(follow_symlinks, must_exist)
    \/ \E follow_symlinks \in BOOLEAN, must_exist \in BOOLEAN :
           CallIsFile(follow_symlinks, must_exist)
    \/ \E strict \in BOOLEAN : CallResolve(strict)
    \/ CallConform
    \/ Forget

Spec == Init /\ [][Next]_vars

---------------------------------------------------------------------------
(* Paths as values: construction from strings, joining, parent, URIs, and  *)
(* the string form.  The filesystem plays no part and stays empty; p is    *)
(* the receiver of a call and `last` holds what the call returned.         *)

\* the strings given as segments: up to MaxSegLen characters among "/", ".", "a"
SegmentStrings == StrUpTo({Sep, ".", "a"}, MaxSegLen)

\* the URIs given to from_uri: file URIs, and one string that is no URI
UriStrings == { FileScheme \o s : s \in SegmentStrings } \cup { <<"a">> }

\* the paths followed further have at most MaxParts components
Small(q) == Len(q.path.parts) <= MaxParts

CallJoinPath(other) ==
    /\ last = Idle
    /\ last' = Call("join_path", [other |-> other], Ret(Path_join_path(p, other)))
    /\ UNCHANGED <<fs, p>>

CallTrueDiv(other) ==
    /\ last = Idle
    /\ last' = Call("truediv", [other |-> <<other>>], Ret(Path_truediv(p, other)))
    /\ UNCHANGED <<fs, p>>

CallParent ==
    /\ last = Idle
    /\ last' = Call("parent", [other |-> <<>>], Ret(Path_parent(p)))
    /\ UNCHANGED <<fs, p>>

CallFromUri(uri) ==
    /\ last = Idle
    /\ last' = Call("from_uri", [other |-> <<uri>>], Path_from_uri(uri))
    /\ UNCHANGED <<fs, p>>

\* Path(str(p))
CallRoundTrip ==
    /\ last = Idle
    /\ last' = Call("roundtrip", [other |-> <<Path_str(p)>>], Ret(Path_init(<<Path_str(p)>>)))
    /\ UNCHANGED <<fs, p>>

\* the program goes on with the path a call returned
Adopt ==
    /\ last # Idle
    /\ last.ret.exc = "none"
    /\ Small(last.ret.val)
    /\ p' = last.ret.val
    /\ last' = Idle
    /\ UNCHANGED fs

\* the path is built first: Path(*segments) for up to MaxParts strings
InitStr ==
    /\ fs = EmptyFs
    /\ p \in { q \in { Path_init(segments) : segments \in SeqsUpTo(SegmentStrings, MaxParts) } :
                Small(q) }
    /\ last = Idle

NextStr ==
    \/ \E other \in SeqsUpTo(SegmentStrings, 1) : CallJoinPath(other)
    \/ \E other \in SegmentStrings : CallTrueDiv(other)
    \/ CallParent
    \/ \E uri \in UriStrings : CallFromUri(uri)
    \/ CallRoundTrip
    \/ Adopt
    \/ Forget

SpecStr == InitStr /\ [][NextStr]_vars

---------------------------------------------------------------------------
(* Construction and joining with segments of any type.  p is the receiver  *)
(* of join_path and of `/`; the filesystem plays no part.                  *)

\* the semantically typed values given as segments: Path("a"), Path("a/"), Path("/")
SemanticArgs == { SemanticArg(Path_init(<<s>>)) : s \in { <<"a">>, <<"a", Sep>>, <<Sep>> } }

\* the segments given: strings, typed paths, one pathlib path and one integer
Args ==
    { StrArg(s) : s \in SegmentStrings } \cup SemanticArgs
        \cup { PathlibArg(pathlib_Path(<< <<"a">> >>)), IntArg }

\* no, one or two segments
ArgLists == { <<>> } \cup { <<a>> : a \in Args } \cup { <<a, b>> : a \in Args, b \in Args }

CallPath(args) ==
    /\ last = Idle
    /\ last' = Call("Path", [other |-> args], Path_new(args))
    /\ UNCHANGED <<fs, p>>

CallJoinPathAny(other) ==
    /\ last = Idle
    /\ last' = Call("join_path", [other |-> other], Path_join_path_any(p, other))
    /\ UNCHANGED <<fs, p>>

CallTrueDivAny(other) ==
    /\ last = Idle
    /\ last' = Call("truediv", [other |-> <<other>>], truediv_expr(p, other))
    /\ UNCHANGED <<fs, p>>

\* the receiver is built from one string
InitSeg ==
    /\ fs = EmptyFs
    /\ p \in { Path_init(<<s>>) : s \in SegmentStrings }
    /\ last = Idle

NextSeg ==
    \/ \E args \in ArgLists : CallPath(args)
    \/ \E other \in ArgLists : CallJoinPathAny(other)
    \/ \E other \in Args : CallTrueDivAny(other)
    \/ Forget

SpecSeg == InitSeg /\ [][NextSeg]_vars

---------------------------------------------------------------------------
(* The final component: name, suffix, suffixes, and the with_* methods.    *)

\* pathlib's name: the last part, "" for the anchor and for "."
pathlib_name(path) ==
    IF path.parts = <<>> THEN <<>> ELSE path.parts[Len(path.parts)]

\* str.rfind("."), counted from 1; 0 when there is no dot
RFindDot(name) ==
    IF \E i \in 1..Len(name) : name[i] = "."
    THEN CHOOSE i \in 1..Len(name) :
             name[i] = "." /\ \A j \in (i + 1)..Len(name) : name[j] # "."
    ELSE 0

\* pathlib's suffix: from the last dot, unless that dot opens or closes the name
pathlib_suffix(path) ==
    LET name == pathlib_name(path)
        i    == RFindDot(name)
    IN  IF 1 < i /\ i < Len(name) THEN SubSeq(name, i, Len(name)) ELSE <<>>

RECURSIVE LStripDot(_)
\* str.lstrip(".")
LStripDot(s) ==
    IF s # <<>> /\ Head(s) = "." THEN LStripDot(Tail(s)) ELSE s

RECURSIVE RStripDot(_)
\* str.rstrip(".")
RStripDot(s) ==
    IF s # <<>> /\ s[Len(s)] = "." THEN RStripDot(SubSeq(s, 1, Len(s) - 1)) ELSE s

RECURSIVE SplitDot(_)
\* str.split("."): the pieces between the dots, at least one piece
SplitDot(s) ==
    IF s = <<>> THEN << <<>> >>
    ELSE LET rest == SplitDot(Tail(s))
         IN  IF Head(s) = "."
             THEN << <<>> >> \o rest
             ELSE << <<Head(s)>> \o Head(rest) >> \o Tail(rest)

\* pathlib's suffixes: none for a name ending with a dot, else every piece
\* after the first of the name without its leading dots
pathlib_suffixes(path) ==
    LET name == pathlib_name(path)
    IN  IF name # <<>> /\ name[Len(name)] = "." THEN <<>>
        ELSE LET pieces == Tail(SplitDot(LStripDot(name)))
             IN  [i \in 1..Len(pieces) |-> <<".">> \o pieces[i]]

\* pathlib's with_name
pathlib_with_name(path, name) ==
    IF pathlib_name(path) = <<>> THEN Raise("ValueError")
    ELSE LET parsed == pathlib_Path(<<name>>)
         IN  IF \/ name = <<>>
                \/ name[Len(name)] = Sep
                \/ parsed.root # <<>>
                \/ Len(parsed.parts) # 1
             THEN Raise("ValueError")
             ELSE Ret([root  |-> path.root,
                       parts |-> SubSeq(path.parts, 1, Len(path.parts) - 1) \o <<name>>])

\* pathlib's with_stem
pathlib_with_stem(path, stem) == pathlib_with_name(path, stem \o pathlib_suffix(path))

\* pathlib's with_suffix
pathlib_with_suffix(path, suffix) ==
    IF \E i \in 1..Len(suffix) : suffix[i] = Sep THEN Raise("ValueError")
    ELSE IF (suffix # <<>> /\ Head(suffix) # ".") \/ suffix = <<".">> THEN Raise("ValueError")
    ELSE IF pathlib_name(path) = <<>> THEN Raise("ValueError")
    ELSE LET name       == pathlib_name(path)
             old_suffix == pathlib_suffix(path)
         IN  Ret([root  |-> path.root,
                  parts |-> SubSeq(path.parts, 1, Len(path.parts) - 1)
                              \o << SubSeq(name, 1, Len(name) - Len(old_suffix)) \o suffix >>])

\* a pathlib result made a Path with the given semantic type; an error passes through
lift(r, sem) == IF r.exc # "none" THEN r ELSE Ret(from_pathlib_path(r.val, sem))

Path_name(q) == pathlib_name(q.path)

\* Path.with_name taking the semantic type from the new name
Path_with_name_Reinfer(q, name) ==
    lift(pathlib_with_name(q.path, name), identify_semantic_path_type(name))

Path_with_name(q, name) == lift(pathlib_with_name(q.path, name), q.sem)

Path_with_stem(q, stem) == lift(pathlib_with_stem(q.path, stem), q.sem)

\* Path.with_suffix: "." is appended to the string of the path without its suffix
Path_with_suffix(q, suffix) ==
    IF suffix = <<".">>
    THEN Only({ IF r.exc # "none" THEN r
                ELSE Ret(MkPath(Path_init(<< pathlib_str(r.val) \o <<".">> >>).path, q.sem))
              : r \in { pathlib_with_suffix(q.path, <<>>) } })
    ELSE lift(pathlib_with_suffix(q.path, suffix), q.sem)

\* re.fullmatch(r"\.+", s)
AllDots(s) == s # <<>> /\ \A i \in 1..Len(s) : s[i] = "."

\* str.endswith(".")
EndsWithDot(s) == s # <<>> /\ s[Len(s)] = "."

\* Path.suffix
Path_suffix(q) ==
    IF AllDots(Path_str(q)) THEN Ret(<<>>)
    ELSE IF EndsWithDot(Path_str(q)) THEN Ret(<<".">>)
    ELSE Ret(pathlib_suffix(q.path))

RECURSIVE Path_suffixes(_)
\* Path.suffixes
Path_suffixes(q) ==
    IF AllDots(Path_str(q)) THEN Ret(<<>>)
    ELSE IF EndsWithDot(Path_str(q))
    THEN Only({ IF shorter.exc # "none" THEN shorter
                ELSE Only({ IF inner.exc # "none" THEN inner
                            ELSE Ret(inner.val \o << <<".">> >>)
                          : inner \in { Path_suffixes(shorter.val) } })
              : shorter \in { Path_with_name(q, RStripDot(Path_name(q))) } })
    ELSE Ret(pathlib_suffixes(q.path))

\* Path.parents keeping the receiver's semantic type
Path_parents_KeepSem(q) ==
    [i \in 1..Len(q.path.parts) |->
        from_pathlib_path([root  |-> q.path.root,
                           parts |-> SubSeq(q.path.parts, 1, Len(q.path.parts) - i)],
                          q.sem)]

\* Path.parents: pathlib's parents, one part fewer each, every one a Directory
Path_parents(q) ==
    [i \in 1..Len(q.path.parts) |->
        from_pathlib_path([root  |-> q.path.root,
                           parts |-> SubSeq(q.path.parts, 1, Len(q.path.parts) - i)],
                          DIRECTORY)]

MaxNameLen == 4

\* the strings the receivers are built from
NameStrings == StrUpTo({Sep, ".", "a"}, MaxNameLen)

CallWithName(name) ==
    /\ last = Idle
    /\ last' = Call("with_name", [other |-> <<name>>], Path_with_name(p, name))
    /\ UNCHANGED <<fs, p>>

CallWithStem(stem) ==
    /\ last = Idle
    /\ last' = Call("with_stem", [other |-> <<stem>>], Path_with_stem(p, stem))
    /\ UNCHANGED <<fs, p>>

CallWithSuffix(suffix) ==
    /\ last = Idle
    /\ last' = Call("with_suffix", [other |-> <<suffix>>], Path_with_suffix(p, suffix))
    /\ UNCHANGED <<fs, p>>

CallAbsolute ==
    /\ last = Idle
    /\ last' = Call("absolute", [other |-> <<>>], Ret(Path_absolute(p)))
    /\ UNCHANGED <<fs, p>>

CallParents ==
    /\ last = Idle
    /\ last' = Call("parents", [other |-> <<>>], Ret(Path_parents(p)))
    /\ UNCHANGED <<fs, p>>

CallSuffix ==
    /\ last = Idle
    /\ last' = Call("suffix", [other |-> <<>>], Path_suffix(p))
    /\ UNCHANGED <<fs, p>>

CallSuffixes ==
    /\ last = Idle
    /\ last' = Call("suffixes", [other |-> <<>>], Path_suffixes(p))
    /\ UNCHANGED <<fs, p>>

\* the receiver is built from one string
InitName ==
    /\ fs = EmptyFs
    /\ p \in { Path_init(<<s>>) : s \in NameStrings }
    /\ last = Idle

NextName ==
    \/ \E name \in SegmentStrings : CallWithName(name)
    \/ \E stem \in SegmentStrings : CallWithStem(stem)
    \/ \E suffix \in SegmentStrings : CallWithSuffix(suffix)
    \/ CallAbsolute
    \/ CallParent
    \/ CallParents
    \/ CallSuffix
    \/ CallSuffixes
    \/ Forget

SpecName == InitName /\ [][NextName]_vars

---------------------------------------------------------------------------
(* Walking a directory tree: traverse and find.  The tree has no symbolic  *)
(* links; the order in which a directory lists its entries is the          *)
(* filesystem's, and is an input of each call.                             *)

\* the names in the tree, one of them hidden
TreeNames == { <<"a">>, <<".", "a">> }

\* the locations of the tree, two levels below the working directory
TreeLocs == { <<n>> : n \in TreeNames } \cup { <<n, m>> : n \in TreeNames, m \in TreeNames }

\* the orders in which os.scandir may list a directory
ScanOrders == { << <<"a">>, <<".", "a">> >>, << <<".", "a">>, <<"a">> >> }

MaxDepthArg == 2

\* an optional depth: the empty set is None, {n} is n
DepthArgs == { {} } \cup { {n} : n \in 0..MaxDepthArg }

\* a generator's outcome: what it yielded, and the exception that ended it if any
Stopped(exc, yielded) == [exc |-> exc, val |-> yielded]

\* one generator run after another; nothing runs after an exception
Then(r, s) ==
    IF r.exc # "none" THEN r
    ELSE Only({ Stopped(t.exc, r.val \o t.val) : t \in { s } })

\* os.path.join(top, name), name being relative
os_path_join(top, name) ==
    IF top = <<>> \/ top[Len(top)] = Sep THEN top \o name ELSE top \o <<Sep>> \o name

\* the names os.scandir lists in the directory at loc, in the given order,
\* that are directories (dirs = TRUE) or are not (dirs = FALSE)
scandir(f, loc, order, dirs) ==
    SelectSeq(order, LAMBDA n : /\ Lookup(f, Append(loc, n)).mode # ABSENT
                                /\ (Lookup(f, Append(loc, n)).mode = S_IFDIR) = dirs)

\* pathlib's is_relative_to
pathlib_is_relative_to(path, other) ==
    /\ path.root = other.root
    /\ Len(other.parts) <= Len(path.parts)
    /\ SubSeq(path.parts, 1, Len(other.parts)) = other.parts

\* pathlib's relative_to
pathlib_relative_to(path, other) ==
    IF pathlib_is_relative_to(path, other)
    THEN Ret([root |-> <<>>, parts |-> SubSeq(path.parts, Len(other.parts) + 1, Len(path.parts))])
    ELSE Raise("ValueError")

\* Path.relative_to(other), strict=False
Path_relative_to(q, other) ==
    access_error_handler(lift(pathlib_relative_to(q.path, other.path), q.sem))

\* Path.is_relative_to(other, strict=True)
Path_is_relative_to(f, q, other) ==
    access_error_handler(Only({
        IF target.exc # "none" THEN target
        ELSE Only({ IF root.exc # "none" THEN root
                    ELSE Ret(pathlib_is_relative_to(target.val, root.val))
                  : root \in { pathlib_resolve(f, other.path, FALSE) } })
      : target \in { pathlib_resolve(f, q.path, FALSE) } }))

\* Path.__contains__: other in q
Path_contains(f, q, other) == Path_is_relative_to(f, other, q)

\* Path.is_same_file: both are stat'ed, and are the same file when they are
\* the same entry
Path_is_same_file(f, q, other) ==
    Only({ IF a.err # "OK" THEN Raise(ErrnoExc(a.err))
           ELSE Only({ IF b.err # "OK" THEN Raise(ErrnoExc(b.err))
                       ELSE Ret(a.loc = b.loc)
                     : b \in { os_stat(f, other.path, TRUE) } })
         : a \in { os_stat(f, q.path, TRUE) } })

\* Path._get_relative_depth: the number of components of other relative to q
Path_get_relative_depth(f, q, other) ==
    access_error_handler(Only({
        IF inside.exc # "none" THEN inside
        ELSE IF ~inside.val THEN Raise("ValueError")
        ELSE Only({ IF same.exc # "none" THEN same
                    ELSE IF same.val THEN Ret(0)
                    ELSE Only({ IF rel.exc # "none" THEN rel
                                ELSE Ret(Len(rel.val.path.parts))
                              : rel \in { Path_relative_to(other, q) } })
                  : same \in { Path_is_same_file(f, q, other) } })
      : inside \in { Path_contains(f, q, other) } }))

RECURSIVE traverse_files(_, _, _, _)
\* Path.traverse: the loop over the file names of one directory
traverse_files(self, root, filenames, show_hidden) ==
    IF filenames = <<>> THEN Ret(<<>>)
    ELSE LET filename == Head(filenames)
             path     == Path_truediv(root, filename)
         IN  IF Head(filename) = "." /\ ~show_hidden
             THEN traverse_files(self, root, Tail(filenames), show_hidden)
             ELSE IF Path_relative_to(path, self).exc # "none"
             THEN Stopped(Path_relative_to(path, self).exc, <<>>)
             ELSE Then(Ret(<<path>>), traverse_files(self, root, Tail(filenames), show_hidden))

\* Path.traverse: what is done with one triple (root_name, dirnames, filenames)
\* of os.walk; `dirs` is dirnames as the loop body leaves it
traverse_visit(f, self, root_name, dirnames, filenames, opt) ==
    Only({ IF depth.exc # "none" THEN [exc |-> depth.exc, val |-> <<>>, dirs |-> <<>>]
           ELSE Only({ [exc  |-> files.exc,
                        val  |-> <<Path_init(<<root_name>>)>> \o files.val,
                        dirs |-> IF \E max_depth \in opt.max_depth : depth.val >= max_depth
                                 THEN <<>> ELSE dirnames]
                     : files \in { traverse_files(self, Path_init(<<root_name>>),
                                                  filenames, opt.show_hidden) } })
         : depth \in { IF opt.max_depth = {} THEN Ret(0)
                       ELSE Path_get_relative_depth(f, Path_init(<<root_name>>), self) } })

RECURSIVE traverse_walk(_, _, _, _, _)
RECURSIVE traverse_each(_, _, _, _, _, _)

\* os.walk over the directories `dirs` of top, one after the other
traverse_each(f, self, top, loc, dirs, opt) ==
    IF dirs = <<>> THEN Ret(<<>>)
    ELSE Then(traverse_walk(f, self, os_path_join(top, Head(dirs)), Append(loc, Head(dirs)), opt),
              traverse_each(f, self, top, loc, Tail(dirs), opt))

\* os.walk from the directory top at loc, with the body of Path.traverse's loop
\* run on every triple: top-down the body runs before the subdirectories it left
\* in dirnames are walked, bottom-up after all of them have been walked
traverse_walk(f, self, top, loc, opt) ==
    IF Lookup(f, loc).mode # S_IFDIR THEN Ret(<<>>)
    ELSE IF opt.top_down
    THEN Only({ IF here.exc # "none" THEN Stopped(here.exc, here.val)
                ELSE Then(Ret(here.val), traverse_each(f, self, top, loc, here.dirs, opt))
              : here \in { traverse_visit(f, self, top, scandir(f, loc, opt.order, TRUE),
                                          scandir(f, loc, opt.order, FALSE), opt) } })
    ELSE Then(traverse_each(f, self, top, loc, scandir(f, loc, opt.order, TRUE), opt),
              Only({ Stopped(here.exc, here.val)
                   : here \in { traverse_visit(f, self, top, scandir(f, loc, opt.order, TRUE),
                                               scandir(f, loc, opt.order, FALSE), opt) } }))

\* Path.traverse, consumed to its end: os.walk(str(self), ...)
Path_traverse(f, self, opt) ==
    Only({ IF st.err # "OK" THEN Ret(<<>>)
           ELSE traverse_walk(f, self, Path_str(self), st.loc, opt)
         : st \in { os_stat(f, pathlib_Path(<<Path_str(self)>>), TRUE) } })

RECURSIVE find_loop(_, _, _, _)
\* Path.find: the loop over the paths traverse yields, with the min_depth filter
find_loop(f, self, paths, min_depth) ==
    IF paths = <<>> THEN Ret(<<>>)
    ELSE Only({ IF depth.exc # "none" THEN Stopped(depth.exc, <<>>)
                ELSE Then(Ret(IF \E m \in min_depth : m > depth.val THEN <<>> ELSE <<Head(paths)>>),
                          find_loop(f, self, Tail(paths), min_depth))
              : depth \in { IF min_depth = {} THEN Ret(0)
                            ELSE Path_get_relative_depth(f, Head(paths), self) } })

\* Path.find(min_depth=...), consumed to its end, every other filter left open
Path_find(f, self, order, min_depth) ==
    Only({ Then(find_loop(f, self, traversed.val, min_depth), Stopped(traversed.exc, <<>>))
         : traversed \in { Path_traverse(f, self, [top_down |-> TRUE, show_hidden |-> TRUE,
                                                    max_depth |-> {}, order |-> order]) } })

CallTraverse(opt) ==
    /\ last = Idle
    /\ last' = Call("traverse", opt, Path_traverse(fs, p, opt))
    /\ UNCHANGED <<fs, p>>

CallFind(order, min_depth) ==
    /\ last = Idle
    /\ last' = Call("find", [order |-> order, min_depth |-> min_depth],
                    Path_find(fs, p, order, min_depth))
    /\ UNCHANGED <<fs, p>>

\* a tree of regular files and directories, and a traversal root: the working
\* directory or the entry "a" in it, tagged either way
InitTree ==
    /\ fs \in { f \in [TreeLocs -> {NoEntry, Entry(S_IFREG), Entry(S_IFDIR)}] : WellFormed(f) }
    /\ p \in { Path_init(<<s>>) : s \in { <<".">>, <<"a">>, <<"a", Sep>> } }
    /\ last = Idle

NextTree ==
    \/ \E top_down \in BOOLEAN, show_hidden \in BOOLEAN, max_depth \in DepthArgs, order \in ScanOrders :
          CallTraverse([top_down |-> top_down, show_hidden |-> show_hidden,
                        max_depth |-> max_depth, order |-> order])
    \/ \E order \in ScanOrders, min_depth \in DepthArgs : CallFind(order, min_depth)
    \/ Forget

SpecTree == InitTree /\ [][NextTree]_vars

---------------------------------------------------------------------------
(* Components, equality and hashing.  p is the receiver, built from one     *)
(* string; the other operand of == is built from one string too.            *)

\* pathlib.PurePath.parts: the root, when there is one, then the components
pathlib_parts(path) ==
    (IF path.root = <<>> THEN <<>> ELSE <<path.root>>) \o path.parts

\* Path.parts: every component but the last gets the separator appended, the
\* last one the suffix of the semantic type
Path_parts(q) ==
    LET parts == pathlib_parts(q.path)
        n     == Len(parts)
    IN  [ i \in 1..n |->
            IF i < n
            THEN IF parts[i] # <<>> /\ ~EndsWith(parts[i], <<Sep>>)
                 THEN parts[i] \o <<Sep>> ELSE parts[i]
            ELSE IF ~EndsWith(parts[i], <<Sep>>)
                 THEN parts[i] \o SemanticValue(q.sem) ELSE parts[i] ]

\* Path.components
Path_components(q) == Path_parts(q)

\* Path.__hash__: hash(self._path).  The hash is represented by the value it
\* is computed from, the pathlib path: two hashes are equal exactly when the
\* two pathlib paths are equal.
Path_hash(q) == pathlib_parts(q.path)

CallParts ==
    /\ last = Idle
    /\ last' = Call("parts", [other |-> <<>>], Ret(Path_parts(p)))
    /\ UNCHANGED <<fs, p>>

CallComponents ==
    /\ last = Idle
    /\ last' = Call("components", [other |-> <<>>], Ret(Path_components(p)))
    /\ UNCHANGED <<fs, p>>

\* p == Path(other)
CallEq(other) ==
    /\ last = Idle
    /\ last' = Call("eq", [other |-> <<other>>], Ret(Path_eq(p, Path_init(<<other>>))))
    /\ UNCHANGED <<fs, p>>

\* hash(p)
CallHash ==
    /\ last = Idle
    /\ last' = Call("hash", [other |-> <<>>], Ret(Path_hash(p)))
    /\ UNCHANGED <<fs, p>>

NextEq ==
    \/ CallParts
    \/ CallComponents
    \/ \E other \in NameStrings : CallEq(other)
    \/ CallHash
    \/ Forget

SpecEq == InitName /\ [][NextEq]_vars

---------------------------------------------------------------------------
(* Path.type while another process changes the filesystem.  The property    *)
(* makes two system calls, the stat inside exists() and the stat whose mode *)
(* it classifies; the other process may act before, between and after them. *)

\* another process creates an entry
OtherCreate(loc, mode) ==
    /\ fs[loc].mode = ABSENT
    /\ NumEntries(fs) < MaxEntries
    /\ LET f == [fs EXCEPT ![loc] = Entry(mode)]
       IN  /\ WellFormed(f)
           /\ fs' = f
    /\ UNCHANGED <<p, last>>

\* another process removes an entry
OtherRemove(loc) ==
    /\ fs[loc].mode # ABSENT
    /\ LET f == [fs EXCEPT ![loc] = NoEntry]
       IN  /\ WellFormed(f)
           /\ fs' = f
    /\ UNCHANGED <<p, last>>

\* the calls and contexts that have begun and not ended
Running == {"type_exists", "temporary_file", "temporary_directory", "write_text_atomic_running"}

\* the program is done with what the last call gave
Return ==
    /\ last.op \notin Running \cup {"idle"}
    /\ last' = Idle
    /\ UNCHANGED <<fs, p>>

\* Path.type up to the return of self.exists(follow_symlinks=False, strict=False)
TypeExists ==
    /\ last = Idle
    /\ last' = [op |-> "type_exists", exists |-> Path_exists(fs, p, FALSE, FALSE)]
    /\ UNCHANGED <<fs, p>>

\* the rest of Path.type: the second stat, its classification, the error wrapper
TypeStat ==
    /\ last.op = "type_exists"
    /\ last' = Call("type", [follow |-> FALSE],
                    access_error_handler(type_after_exists(fs, p, last.exists)))
    /\ UNCHANGED <<fs, p>>

NextRace ==
    \/ \E loc \in Locs, mode \in FileModes : OtherCreate(loc, mode)
    \/ \E loc \in Locs : OtherRemove(loc)
    \/ TypeExists
    \/ TypeStat
    \/ Return

SpecRace == Init /\ [][NextRace]_vars

---------------------------------------------------------------------------
(* Operations that change the filesystem.  Each gives the filesystem it     *)
(* leaves and what it returns or raises.  A regular file carries its text.  *)

File(data) == [mode |-> S_IFREG, target |-> <<>>, data |-> data]

Done(f, r) == [fs |-> f, ret |-> r]

None == "None"

\* Path.__fspath__: the pathlib path as a string, the semantic type left out
Path_fspath(q) == pathlib_str(q.path)

\* the decorator around a method that changes the filesystem
handled(r) == Done(r.fs, access_error_handler(r.ret))

\* loc is top or lies below it
Under(loc, top) == Len(loc) >= Len(top) /\ SubSeq(loc, 1, Len(top)) = top

HasChildren(f, loc) ==
    \E l \in DOMAIN f : Len(l) > Len(loc) /\ Under(l, loc) /\ f[l].mode # ABSENT

\* the kernel making a new entry: mkdir(2), and open(2) with O_CREAT when
\* nothing is there yet.  With O_EXCL, as for mkdir, an existing entry is EEXIST.
os_create(f, path, entry) ==
    LET st  == os_stat(f, path, FALSE)
        dir == os_stat(f, pathlib_parent(path), TRUE)
    IN  IF st.err = "OK" THEN Done(f, Raise("FileExistsError"))
        ELSE IF st.err # "ENOENT" THEN Done(f, Raise(ErrnoExc(st.err)))
        ELSE IF dir.err # "OK" THEN Done(f, Raise(ErrnoExc(dir.err)))
        ELSE Done([f EXCEPT ![Append(dir.loc, path.parts[Len(path.parts)])] = entry], Ret(None))

\* pathlib.Path.touch: os.utime when exist_ok and the entry exists, else os.open
\* with O_CREAT, and O_EXCL unless exist_ok
pathlib_touch(f, path, exist_ok) ==
    IF exist_ok /\ os_stat(f, path, TRUE).err = "OK" THEN Done(f, Ret(None))
    ELSE os_create(f, path, File(<<>>))

RECURSIVE pathlib_mkdir(_, _, _, _)
\* pathlib.Path.mkdir
pathlib_mkdir(f, path, parents, exist_ok) ==
    Only({ IF made.ret.exc = "FileNotFoundError"
           THEN IF ~parents \/ pathlib_parent(path) = path THEN made
                ELSE Only({ IF up.ret.exc # "none" THEN up
                            ELSE pathlib_mkdir(up.fs, path, FALSE, exist_ok)
                          : up \in { pathlib_mkdir(f, pathlib_parent(path), TRUE, TRUE) } })
           ELSE IF made.ret.exc # "none"
           THEN IF ~exist_ok \/ ~pathlib_is_dir(f, path) THEN made ELSE Done(f, Ret(None))
           ELSE made
         : made \in { os_create(f, path, Entry(S_IFDIR)) } })

Path_touch(f, q, exist_ok, strict) ==
    handled(IF strict /\ q.sem = DIRECTORY THEN Done(f, Raise("IsADirectoryError"))
            ELSE pathlib_touch(f, q.path, exist_ok))

Path_mkdir(f, q, parents, exist_ok, strict) ==
    handled(IF strict /\ q.sem = FILE THEN Done(f, Raise("NotADirectoryError"))
            ELSE pathlib_mkdir(f, q.path, parents, exist_ok))

\* os.unlink
os_unlink(f, path) ==
    LET st == os_stat(f, path, FALSE)
    IN  IF st.err # "OK" THEN Done(f, Raise(ErrnoExc(st.err)))
        ELSE IF st.mode = S_IFDIR THEN Done(f, Raise("IsADirectoryError"))
        ELSE Done([f EXCEPT ![st.loc] = NoEntry], Ret(None))

\* os.rmdir
os_rmdir(f, path) ==
    LET st == os_stat(f, path, FALSE)
    IN  IF st.err # "OK" THEN Done(f, Raise(ErrnoExc(st.err)))
        ELSE IF st.mode # S_IFDIR THEN Done(f, Raise("NotADirectoryError"))
        ELSE IF HasChildren(f, st.loc) THEN Done(f, Raise("OSError"))
        ELSE Done([f EXCEPT ![st.loc] = NoEntry], Ret(None))

\* shutil.rmtree(path, ignore_errors=...): the directory and all it holds
shutil_rmtree(f, path, ignore_errors) ==
    LET st == os_stat(f, path, FALSE)
    IN  IF st.err = "OK" /\ st.mode = S_IFDIR
        THEN Done([l \in DOMAIN f |-> IF Under(l, st.loc) THEN NoEntry ELSE f[l]], Ret(None))
        ELSE IF ignore_errors THEN Done(f, Ret(None))
        ELSE Done(f, Raise(IF st.err = "OK" THEN "NotADirectoryError" ELSE ErrnoExc(st.err)))

\* what Path.delete does once it has decided to go on
delete_entry(f, q, isdir, recursive, force) ==
    IF isdir.exc # "none" THEN Done(f, isdir)
    ELSE IF isdir.val
    THEN IF recursive \/ force
         THEN shutil_rmtree(f, pathlib_Path(<<Path_fspath(q)>>), force)
         ELSE os_rmdir(f, q.path)
    ELSE IF force
    THEN Only({ IF gone.ret.exc = "FileNotFoundError" THEN Done(f, Ret(None)) ELSE gone
              : gone \in { os_unlink(f, q.path) } })
    ELSE os_unlink(f, q.path)

\* Path.delete removing a directory with rmdir whatever recursive and force say
Path_delete_Rmdir(f, q, recursive, strict, force) ==
    handled(Only({
        IF ex.exc # "none" THEN Done(f, ex)
        ELSE IF ~ex.val THEN Done(f, Raise("FileNotFoundError"))
        ELSE delete_entry(f, q, Path_is_directory(f, q, FALSE, FALSE), FALSE, FALSE)
      : ex \in { IF force THEN Ret(TRUE) ELSE Path_exists(f, q, FALSE, strict) } }))

Path_delete(f, q, recursive, strict, force) ==
    handled(Only({
        IF ex.exc # "none" THEN Done(f, ex)
        ELSE IF ~ex.val THEN Done(f, Raise("FileNotFoundError"))
        ELSE delete_entry(f, q, Path_is_directory(f, q, FALSE, FALSE), recursive, force)
      : ex \in { IF force THEN Ret(TRUE) ELSE Path_exists(f, q, FALSE, strict) } }))

\* the entries of f after src and all below it have moved to dst
Moved(f, src, dst) ==
    [ l \in DOMAIN f |->
        IF Under(l, dst) THEN Lookup(f, src \o SubSeq(l, Len(dst) + 1, Len(l)))
        ELSE IF Under(l, src) THEN NoEntry
        ELSE f[l] ]

\* os.replace(src, dst), dst being given as a string: rename(2)
os_replace(f, src, dst) ==
    LET to  == pathlib_Path(<<dst>>)
        s   == os_stat(f, src, FALSE)
        d   == os_stat(f, to, FALSE)
        dir == os_stat(f, pathlib_parent(to), TRUE)
    IN  IF s.err # "OK" THEN Done(f, Raise(ErrnoExc(s.err)))
        ELSE IF d.err \notin {"OK", "ENOENT"} THEN Done(f, Raise(ErrnoExc(d.err)))
        ELSE IF d.err = "OK" /\ d.loc = s.loc THEN Done(f, Ret(None))
        ELSE IF s.mode = S_IFDIR /\ dir.err = "OK" /\ Under(dir.loc, s.loc)
        THEN Done(f, Raise("OSError"))
        ELSE IF s.mode # S_IFDIR /\ d.err = "OK" /\ d.mode = S_IFDIR
        THEN Done(f, Raise("IsADirectoryError"))
        ELSE IF s.mode # S_IFDIR /\ EndsWith(dst, <<Sep>>)
        THEN Done(f, Raise("NotADirectoryError"))
        ELSE IF s.mode = S_IFDIR /\ d.err = "OK" /\ d.mode # S_IFDIR
        THEN Done(f, Raise("NotADirectoryError"))
        ELSE IF s.mode = S_IFDIR /\ d.err = "OK" /\ HasChildren(f, d.loc)
        THEN Done(f, Raise("OSError"))
        ELSE IF d.err = "OK" THEN Done(Moved(f, s.loc, d.loc), Ret(None))
        ELSE IF dir.err # "OK" THEN Done(f, Raise(ErrnoExc(dir.err)))
        ELSE Done(Moved(f, s.loc, Append(dir.loc, to.parts[Len(to.parts)])), Ret(None))

\* Path.replace(to), to being a Path
Path_replace(f, q, to) ==
    handled(Only({
        IF ex.exc # "none" THEN Done(f, ex)
        ELSE IF ~ex.val THEN Done(f, Raise("FileNotFoundError"))
        ELSE Only({ IF moved.ret.exc # "none" THEN moved
                    ELSE Done(moved.fs, Ret(from_pathlib_path(pathlib_Path(<<Path_fspath(to)>>), q.sem)))
                  : moved \in { os_replace(f, q.path, Path_fspath(to)) } })
      : ex \in { Path_exists(f, q, FALSE, TRUE) } }))

\* open(path, "w"), path being given as a string: the file is made or emptied
open_w(f, path) ==
    LET file == pathlib_Path(<<path>>)
        st   == os_stat(f, file, TRUE)
    IN  IF st.err = "OK" /\ st.mode = S_IFDIR THEN Done(f, Raise("IsADirectoryError"))
        ELSE IF st.err = "OK" /\ EndsWith(path, <<Sep>>) THEN Done(f, Raise("NotADirectoryError"))
        ELSE IF st.err = "OK" THEN Done([f EXCEPT ![st.loc] = File(<<>>)], Ret(st.loc))
        ELSE IF EndsWith(path, <<Sep>>) THEN Done(f, Raise("IsADirectoryError"))
        ELSE Only({ IF made.ret.exc # "none" THEN made
                    ELSE Done(made.fs, Ret(os_stat(made.fs, file, TRUE).loc))
                  : made \in { os_create(f, file, File(<<>>)) } })

\* f.write(data) and the close of the file opened at loc
file_write(f, loc, data) == Done([f EXCEPT ![loc] = File(data)], Ret(Len(data)))

---------------------------------------------------------------------------
(* Creating entries, temporary files and directories, and the atomic write. *)
(* One process works on the filesystem.  p is the receiver of mkdir, touch  *)
(* and write_text_atomic.                                                   *)

\* tempfile.gettempdir(), and the names mkstemp and mkdtemp pick among
TempDir == <<Sep, "T">>
TempNames == { <<"t">> }

\* what the files hold at first, and what is written
Old == <<"o">>
New == <<"n">>

\* the locations of this filesystem: a, a/a, the directory of temporary
\* files, a temporary entry and one entry below it
FileLocs ==
    { << <<"a">> >>, << <<"a">>, <<"a">> >>, << <<"T">> >> }
        \cup { << <<"T">>, name >> : name \in TempNames }
        \cup { << <<"T">>, name, <<"a">> >> : name \in TempNames }

\* tempfile.mkstemp(): a new empty file in the directory of temporary files;
\* the absolute path of the file is returned
tempfile_mkstemp(f, name) ==
    Only({ Done(made.fs, IF made.ret.exc # "none" THEN made.ret
                         ELSE Ret(TempDir \o <<Sep>> \o name))
         : made \in { os_create(f, pathlib_Path(<<TempDir \o <<Sep>> \o name>>), File(<<>>)) } })

\* tempfile.mkdtemp()
tempfile_mkdtemp(f, name) ==
    Only({ Done(made.fs, IF made.ret.exc # "none" THEN made.ret
                         ELSE Ret(TempDir \o <<Sep>> \o name))
         : made \in { os_create(f, pathlib_Path(<<TempDir \o <<Sep>> \o name>>), Entry(S_IFDIR)) } })

\* Path.write_text: open(self, "w") and f.write(data)
Path_write_text(f, q, data) ==
    handled(Only({ IF file.ret.exc # "none" THEN file
                   ELSE file_write(file.fs, file.ret.val, data)
                 : file \in { open_w(f, Path_fspath(q)) } }))

\* the finally clause of temporary_file and of temporary_directory
temporary_exit(f, q, delete) ==
    IF delete THEN Path_delete(f, q, FALSE, TRUE, TRUE) ELSE Done(f, Ret(None))

CallMkdir(parents, exist_ok, strict) ==
    /\ last = Idle
    /\ LET r == Path_mkdir(fs, p, parents, exist_ok, strict)
       IN  /\ fs' = r.fs
           /\ last' = Call("mkdir", [parents |-> parents, exist_ok |-> exist_ok,
                                     strict |-> strict], r.ret)
    /\ UNCHANGED p

CallTouch(exist_ok, strict) ==
    /\ last = Idle
    /\ LET r == Path_touch(fs, p, exist_ok, strict)
       IN  /\ fs' = r.fs
           /\ last' = Call("touch", [exist_ok |-> exist_ok, strict |-> strict], r.ret)
    /\ UNCHANGED p

\* with Path.temporary_file(delete=delete) as ...: up to the yield
EnterTemporaryFile(name, delete) ==
    /\ last = Idle
    /\ Lookup(fs, << <<"T">>, name >>).mode = ABSENT
    /\ LET r == tempfile_mkstemp(fs, name)
       IN  /\ r.ret.exc = "none"
           /\ fs' = r.fs
           /\ last' = [op |-> "temporary_file", path |-> Path_init(<<r.ret.val>>),
                       delete |-> delete]
    /\ UNCHANGED p

\* with Path.temporary_directory(delete=delete) as ...: up to the yield
EnterTemporaryDirectory(name, delete) ==
    /\ last = Idle
    /\ Lookup(fs, << <<"T">>, name >>).mode = ABSENT
    /\ LET r == tempfile_mkdtemp(fs, name)
       IN  /\ r.ret.exc = "none"
           /\ fs' = r.fs
           /\ last' = [op |-> "temporary_directory",
                       path |-> Path_init(<<r.ret.val \o <<Sep>>>>), delete |-> delete]
    /\ UNCHANGED p

\* the body of the with statement writes: to the temporary file itself, or to
\* a file of the temporary directory
BodyWriteText(data) ==
    /\ last.op \in {"temporary_file", "temporary_directory"}
    /\ LET q == IF last.op = "temporary_file" THEN last.path
                ELSE Path_truediv(last.path, <<"a">>)
       IN  fs' = Path_write_text(fs, q, data).fs
    /\ UNCHANGED <<p, last>>

\* the with statement ends, its body having raised or not
ExitContext(raised) ==
    /\ last.op \in {"temporary_file", "temporary_directory"}
    /\ LET r == temporary_exit(fs, last.path, last.delete)
       IN  /\ fs' = r.fs
           /\ last' = Call("exit", [kind |-> last.op, path |-> last.path,
                                    delete |-> last.delete, raised |-> raised,
                                    held |-> fs],
                           IF r.ret.exc # "none" THEN r.ret
                           ELSE IF raised THEN Raise("Exception") ELSE Ret(None))
    /\ UNCHANGED p

\* the entry a path names, symbolic links followed
EntryAt(f, q) ==
    Only({ IF st.err = "OK" THEN Lookup(f, st.loc) ELSE NoEntry
         : st \in { os_stat(f, q.path, TRUE) } })

\* write_text_atomic(data), up to the yield of temporary_file()
AtomicEnter(name, data) ==
    /\ last = Idle
    /\ Lookup(fs, << <<"T">>, name >>).mode = ABSENT
    /\ LET r == tempfile_mkstemp(fs, name)
       IN  /\ r.ret.exc = "none"
           /\ fs' = r.fs
           /\ last' = [op |-> "write_text_atomic_running", pc |-> "open", data |-> data,
                       temp_path |-> Path_init(<<r.ret.val>>), prior |-> EntryAt(fs, p),
                       file |-> <<>>, exc |-> "none"]
    /\ UNCHANGED p

\* how write_text_atomic ends: with its error, through its decorator, or without
AtomicDone(exc, replace_failed) ==
    Call("write_text_atomic",
         [data |-> last.data, temp_path |-> last.temp_path, prior |-> last.prior,
          replace_failed |-> replace_failed],
         access_error_handler(IF exc = "none" THEN Ret(None) ELSE Raise(exc)))

\* temp_path.write_text(data) opening the file with a handle on the target
AtomicOpen_Target ==
    /\ last.op = "write_text_atomic_running" /\ last.pc = "open"
    /\ LET r == open_w(fs, Path_fspath(p))
       IN  /\ fs' = r.fs
           /\ last' = IF r.ret.exc # "none"
                      THEN [last EXCEPT !.pc = "exit", !.exc = access_error_handler(r.ret).exc]
                      ELSE [last EXCEPT !.pc = "write", !.file = r.ret.val]
    /\ UNCHANGED p

\* temp_path.write_text(data): the file is opened
AtomicOpen ==
    /\ last.op = "write_text_atomic_running" /\ last.pc = "open"
    /\ LET r == open_w(fs, Path_fspath(last.temp_path))
       IN  /\ fs' = r.fs
           /\ last' = IF r.ret.exc # "none"
                      THEN [last EXCEPT !.pc = "exit", !.exc = access_error_handler(r.ret).exc]
                      ELSE [last EXCEPT !.pc = "write", !.file = r.ret.val]
    /\ UNCHANGED p

\* temp_path.write_text(data): the data is written and the file closed
AtomicWrite ==
    /\ last.op = "write_text_atomic_running" /\ last.pc = "write"
    /\ fs' = file_write(fs, last.file, last.data).fs
    /\ last' = [last EXCEPT !.pc = "exit"]
    /\ UNCHANGED p

\* the with statement of write_text_atomic ends: temporary_file() deletes
AtomicExit ==
    /\ last.op = "write_text_atomic_running" /\ last.pc = "exit"
    /\ LET r == temporary_exit(fs, last.temp_path, TRUE)
       IN  /\ fs' = r.fs
           /\ last' = IF r.ret.exc # "none" THEN AtomicDone(r.ret.exc, FALSE)
                      ELSE IF last.exc # "none" THEN AtomicDone(last.exc, FALSE)
                      ELSE [last EXCEPT !.pc = "replace"]
    /\ UNCHANGED p

\* temp_path.replace(self)
AtomicReplace ==
    /\ last.op = "write_text_atomic_running" /\ last.pc = "replace"
    /\ LET r == Path_replace(fs, last.temp_path, p)
       IN  /\ fs' = r.fs
           /\ last' = IF r.ret.exc = "none" THEN AtomicDone("none", FALSE)
                      ELSE [last EXCEPT !.pc = "cleanup", !.exc = r.ret.exc]
    /\ UNCHANGED p

\* the except clause: temp_path.delete() with OSError suppressed, then raise
AtomicCleanup ==
    /\ last.op = "write_text_atomic_running" /\ last.pc = "cleanup"
    /\ LET r == Path_delete(fs, last.temp_path, FALSE, TRUE, FALSE)
       IN  /\ fs' = r.fs
           /\ last' = IF r.ret.exc \in OSErrors \cup {"none"}
                      THEN AtomicDone(last.exc, TRUE)
                      ELSE AtomicDone(r.ret.exc, TRUE)
    /\ UNCHANGED p

\* the directory of temporary files exists; a is missing, a file or a directory
InitFiles ==
    /\ fs \in { [ l \in FileLocs |->
                    IF l = << <<"T">> >> THEN Entry(S_IFDIR)
                    ELSE IF l = << <<"a">> >> THEN top
                    ELSE IF l = << <<"a">>, <<"a">> >> THEN below
                    ELSE NoEntry ]
              : top \in { NoEntry, File(Old), Entry(S_IFDIR) },
                below \in { NoEntry, File(Old) } }
    /\ WellFormed(fs)
    /\ p \in { Path_init(<<s>>) : s \in { <<"a">>, <<"a", Sep>>, <<"a", Sep, "a">> } }
    /\ last = Idle

NextFiles ==
    \/ \E parents \in BOOLEAN, exist_ok \in BOOLEAN, strict \in BOOLEAN :
           CallMkdir(parents, exist_ok, strict)
    \/ \E exist_ok \in BOOLEAN, strict \in BOOLEAN : CallTouch(exist_ok, strict)
    \/ \E name \in TempNames, delete \in BOOLEAN : EnterTemporaryFile(name, delete)
    \/ \E name \in TempNames, delete \in BOOLEAN : EnterTemporaryDirectory(name, delete)
    \/ BodyWriteText(New)
    \/ \E raised \in BOOLEAN : ExitContext(raised)
    \/ \E name \in TempNames : AtomicEnter(name, New)
    \/ AtomicOpen
    \/ AtomicWrite
    \/ AtomicExit
    \/ AtomicReplace
    \/ AtomicCleanup
    \/ Return

SpecFiles == InitFiles /\ [][NextFiles]_vars

---------------------------------------------------------------------------
(* What the filesystem holds for the path under consideration, as the OS   *)
(* reports it, independently of Path's methods.                            *)

\* the file types `stat` has a predicate for
KnownModes == {S_IFREG, S_IFDIR, S_IFLNK, S_IFIFO, S_IFCHR, S_IFBLK, S_IFSOCK}

\* stat of p, following symbolic links or not
StatOfP(follow_symlinks) == os_stat(fs, p.path, follow_symlinks)

\* the stat call finds nothing: a component is missing or is not a directory
Missing(st) == st.err \in {"ENOENT", "ENOTDIR"}

\* the path a query looks at: p resolved when it follows symbolic links, else p
TargetOfP(follow_symlinks) ==
    IF follow_symlinks THEN pathlib_resolve(fs, p.path, FALSE).val ELSE p.path

---------------------------------------------------------------------------
(* Claims. *)

\* C1: when nothing exists at p's location, is_file(must_exist=True) returns
\* False and is_file(must_exist=False) returns True exactly when p's semantic
\* type is File, for either value of follow_symlinks.
C1_IsFileOfMissingPath ==
    (last.op = "is_file" /\ Missing(StatOfP(FALSE)))
        => IF last.args.must_exist
           THEN Returned(last.ret, FALSE)
           ELSE Returned(last.ret, p.sem = FILE)

\* C2: is_directory returns True when the (resolved, if follow_symlinks) target
\* is physically a directory; when nothing exists there it returns False if
\* must_exist and otherwise True exactly when p's semantic type is Directory;
\* when something else exists there it returns False.
C2_IsDirectory ==
    last.op = "is_directory"
        => LET st == os_stat(fs, TargetOfP(last.args.follow), FALSE)
           IN  IF st.err = "OK" /\ st.mode = S_IFDIR THEN Returned(last.ret, TRUE)
               ELSE IF st.err = "OK" THEN Returned(last.ret, FALSE)
               ELSE IF last.args.must_exist THEN Returned(last.ret, FALSE)
               ELSE Returned(last.ret, p.sem = DIRECTORY)

C4_ExistsAbsorbsStatErrors ==
    (last.op = "exists" /\ Missing(StatOfP(last.args.follow)))
        => Returned(last.ret, FALSE)

\* C5: for a path whose target does not exist, resolve() (strict=False)
\* returns a path with the same semantic type as the receiver.
C5_ResolveOfMissingKeepsType ==
    (last.op = "resolve" /\ ~last.args.strict /\ Missing(StatOfP(TRUE)))
        => (last.ret.exc = "none" /\ last.ret.val.sem = p.sem)

\* C6: resolve(strict=True) on a path whose target, or an intermediate
\* symbolic link's target, is missing raises the OS's not-found error and
\* returns no path.
C6_ResolveStrictRaises ==
    (last.op = "resolve" /\ last.args.strict /\ StatOfP(TRUE).err = "ENOENT")
        => last.ret.exc \in OSErrors

\* C7: conform_to_filesystem() returns the normalized path, tagged Directory
\* iff the normalized location is a directory when something exists there, and
\* tagged as the receiver when nothing exists there.
C7_ConformToFilesystem ==
    last.op = "conform_to_filesystem"
        => LET target == pathlib_Path(<<normpath(Path_str(p))>>)
               st     == os_stat(fs, target, TRUE)
           IN  /\ last.ret.exc = "none"
               /\ last.ret.val.path = target
               /\ IF st.err = "OK"
                  THEN last.ret.val.sem = DIRECTORY <=> st.mode = S_IFDIR
                  ELSE last.ret.val.sem = p.sem

\* C8: when the target exists (and the filesystem stays as it is),
\* p.resolve().resolve() == p.resolve(), and p.resolve() is tagged Directory
\* iff the target, symbolic links followed, is a directory.
C8_ResolveIdempotent ==
    (last.op = "resolve" /\ ~last.args.strict /\ StatOfP(TRUE).err = "OK")
        => /\ last.ret.exc = "none"
           /\ LET again == Path_resolve(fs, last.ret.val, FALSE)
              IN  again.exc = "none" /\ Path_eq(again.val, last.ret.val)
           /\ last.ret.val.sem = DIRECTORY <=> StatOfP(TRUE).mode = S_IFDIR

\* C8's case: a File-tagged relative path that is a symbolic link to a
\* directory resolves to the directory itself, tagged Directory
C8_Witness ==
    /\ last.op = "resolve"
    /\ ~last.args.strict
    /\ p.sem = FILE
    /\ p.path.root = <<>>
    /\ StatOfP(FALSE).err = "OK"
    /\ StatOfP(FALSE).mode = S_IFLNK
    /\ StatOfP(TRUE).err = "OK"
    /\ last.ret.exc = "none"
    /\ last.ret.val.sem = DIRECTORY
    /\ last.ret.val.path.parts # p.path.parts

\* C9: for every path obtained from the constructor, a join, parent or from_uri,
\* str(p) ends with the separator if and only if p's semantic type is Directory.
C9_StrEndsWithSepIffDirectory ==
    EndsWith(Path_str(p), <<Sep>>) <=> p.sem = DIRECTORY

\* C10: for every path p whose string form is unambiguous (p is tagged
\* Directory, the root included, or p is tagged File and its string form does
\* not end with the separator), Path(str(p)) == p.
C10_RoundTrip ==
    (last.op = "roundtrip" /\ (p.sem = DIRECTORY \/ ~EndsWith(Path_str(p), <<Sep>>)))
        => (last.ret.exc = "none" /\ Path_eq(last.ret.val, p))

---------------------------------------------------------------------------
(* The vocabulary of the claims about segments. *)

\* the segments of the call in `last`, and the last of them
ArgsOfCall == last.args.other
TailOfCall == ArgsOfCall[Len(ArgsOfCall)]

\* the string ends with the separator
TrailingSep(str) == str # <<>> /\ str[Len(str)] = Sep

\* the type a segment stands for: its own when it is typed, else Directory
\* for ".", ".." and strings ending with the separator, File for other strings
InferredType(arg) ==
    IF arg.kind = "semantic" THEN arg.sem
    ELSE IF arg.fspath = <<".">> \/ arg.fspath = <<".", ".">> \/ TrailingSep(arg.fspath)
    THEN "DIRECTORY" ELSE "FILE"

\* every segment is a string or path-like and the last one is a string or typed
WellTyped(args) ==
    /\ \A i \in 1..Len(args) : args[i].kind # "int"
    /\ args # <<>> => args[Len(args)].kind \in {"str", "semantic"}

\* C11: Path(segments...) is tagged Directory iff the segment list is empty or
\* its last segment is ".", ".." or ends with the separator (a typed last
\* segment gives its own type); every other string last segment gives File.
C11_ConstructInfersFromLastSegment ==
    (last.op = "Path" /\ WellTyped(ArgsOfCall))
        => /\ last.ret.exc = "none"
           /\ last.ret.val.sem \in {"FILE", "DIRECTORY"}
           /\ last.ret.val.sem = "DIRECTORY"
                <=> (ArgsOfCall = <<>> \/ InferredType(TailOfCall) = "DIRECTORY")

\* C11's case: the last of two segments is "..", after a segment that is a file name
C11_Witness ==
    /\ last.op = "Path"
    /\ Len(ArgsOfCall) = 2
    /\ ArgsOfCall[1] = StrArg(<<"a">>)
    /\ TailOfCall = StrArg(<<".", ".">>)
    /\ Returned(last.ret, MkPath([root |-> <<>>, parts |-> << <<"a">>, <<".", ".">> >>], "DIRECTORY"))

\* the path made of q's own string followed by the given strings
StructuralJoin(q, strs) == pathlib_Path(<<pathlib_str(q.path)>> \o strs)

\* C12: p.join_path(s1, ..., sk) with k >= 1 is the structural join of p with
\* the segments and has the semantic type inferred from sk alone, whatever p's
\* own type; p.join_path() is p; p / s is p.join_path(s) for a string or typed s.
C12_JoinInfersFromLastSegment ==
    /\ (last.op = "join_path" /\ ArgsOfCall # <<>> /\ WellTyped(ArgsOfCall))
         => /\ last.ret.exc = "none"
            /\ last.ret.val.path
                 = StructuralJoin(p, [i \in 1..Len(ArgsOfCall) |-> ArgsOfCall[i].fspath])
            /\ last.ret.val.sem = InferredType(TailOfCall)
    /\ (last.op = "join_path" /\ ArgsOfCall = <<>>) => Returned(last.ret, p)
    /\ (last.op = "truediv" /\ TailOfCall.kind \in {"str", "semantic"})
         => /\ last.ret.exc = "none"
            /\ last.ret = Path_join_path_any(p, ArgsOfCall)

\* C12's case: a Directory-tagged path joined with a directory string and then a file name
C12_Witness ==
    /\ last.op = "join_path"
    /\ p = Path_init(<< <<"a", Sep>> >>)
    /\ ArgsOfCall = << StrArg(<<"a", Sep>>), StrArg(<<"a">>) >>
    /\ Returned(last.ret, MkPath([root |-> <<>>, parts |-> << <<"a">>, <<"a">>, <<"a">> >>], "FILE"))

\* C13: constructing a Path, calling join_path or applying `/` with a final
\* segment that is neither a string nor a semantically typed value (a plain
\* path-like object included) raises TypeError and produces no path value.
C13_AmbiguousTailRaisesTypeError ==
    (/\ last.op \in {"Path", "join_path", "truediv"}
     /\ ArgsOfCall # <<>>
     /\ TailOfCall.kind \notin {"str", "semantic"})
        => last.ret.exc = "TypeError"

---------------------------------------------------------------------------
(* The vocabulary of the claims about the final component. *)

\* the one argument of the call in `last`
ArgOfCall == last.args.other[1]

\* the final name a with_* call asks for
ReplacementName ==
    IF last.op = "with_name" THEN ArgOfCall
    ELSE IF last.op = "with_stem" THEN ArgOfCall \o pathlib_suffix(p.path)
    ELSE LET name == Path_name(p)
         IN  SubSeq(name, 1, Len(name) - Len(pathlib_suffix(p.path))) \o ArgOfCall

C15_ParentsAreDirectories ==
    /\ last.op = "parent" => Returned(last.ret, MkPath(pathlib_parent(p.path), "DIRECTORY"))
    /\ last.op = "parents"
         => /\ last.ret.exc = "none"
            /\ \A i \in 1..Len(last.ret.val) :
                  /\ last.ret.val[i].sem = "DIRECTORY"
                  /\ last.ret.val[i].path
                       = pathlib_parent(IF i = 1 THEN p.path ELSE last.ret.val[i - 1].path)
            /\ Len(last.ret.val) = Len(p.path.parts)

\* C15's case: the two ancestors of a File-tagged path of two components
C15_Witness ==
    /\ last.op = "parents"
    /\ p = Path_init(<< <<"a", Sep, "a">> >>)
    /\ Returned(last.ret, << MkPath([root |-> <<>>, parts |-> << <<"a">> >>], "DIRECTORY"),
                             MkPath([root |-> <<>>, parts |-> <<>>], "DIRECTORY") >>)

\* C16 as stated: p.parent has the same semantic type as p.
C16_ParentPreservesType ==
    last.op = "parent" => (last.ret.exc = "none" /\ last.ret.val.sem = p.sem)

\* C16 amended: p.parent is tagged Directory whatever p's semantic type, so the
\* type is preserved exactly when p is itself tagged Directory.
C16_ParentTypePreservedIffDirectory ==
    last.op = "parent"
        => /\ last.ret.exc = "none"
           /\ last.ret.val.sem = p.sem <=> p.sem = "DIRECTORY"

\* C16's case: the parent of a File-tagged path
C16_Witness ==
    /\ last.op = "parent"
    /\ p = Path_init(<< <<"a", Sep, "a">> >>)
    /\ p.sem = "FILE"
    /\ Returned(last.ret, MkPath([root |-> <<>>, parts |-> << <<"a">> >>], "DIRECTORY"))

\* the suffixes pathlib gives for a bare name
SuffixesOfName(name) == pathlib_suffixes([root |-> <<>>, parts |-> <<name>>])

\* C17: for every path, whatever its directory prefix and semantic type: a
\* final name of dots only has suffix "" and suffixes []; a final name ending
\* with a dot but not all dots has suffix "." and, as suffixes, those of the
\* name without its trailing dots followed by "."; neither property raises.
C17_TrailingDotSuffix ==
    /\ last.op = "suffix"
         => /\ last.ret.exc = "none"
            /\ AllDots(Path_name(p)) => last.ret.val = <<>>
            /\ (EndsWithDot(Path_name(p)) /\ ~AllDots(Path_name(p))) => last.ret.val = <<".">>
    /\ last.op = "suffixes"
         => /\ last.ret.exc = "none"
            /\ AllDots(Path_name(p)) => last.ret.val = <<>>
            /\ (EndsWithDot(Path_name(p)) /\ ~AllDots(Path_name(p)))
                 => last.ret.val = SuffixesOfName(RStripDot(Path_name(p))) \o << <<".">> >>

---------------------------------------------------------------------------
(* The vocabulary of the claims about traversal. *)

\* the number of segments of a yielded path beyond the traversal root
DepthBeyond(x) == Len(x.path.parts) - Len(p.path.parts)

\* the paths the call in `last` yielded, as a set
YieldedSet == { last.ret.val[i] : i \in 1..Len(last.ret.val) }

\* the paths an unrestricted top-down traversal yields under the same listing order
FullTraversal ==
    Only({ { full.val[i] : i \in 1..Len(full.val) }
         : full \in { Path_traverse(fs, p, [top_down |-> TRUE, show_hidden |-> TRUE,
                                            max_depth |-> {}, order |-> last.args.order]) } })

\* C18: for every tree, every N >= 0 and both values of top_down,
\* traverse(max_depth=N) yields no path, file or directory, with more than N
\* segments beyond the traversal root.
C18_MaxDepthBoundsYield ==
    last.op = "traverse"
        => \A N \in last.args.max_depth :
              \A x \in YieldedSet : DepthBeyond(x) <= N

\* C19: traverse(max_depth=N) with N >= 1 and find(min_depth=M) raise no error;
\* depth is the count of segments beyond the traversal root, so
\* traverse(max_depth=1) yields the root and its immediate entries, and
\* find(min_depth=M) yields exactly the traversed paths of depth >= M.
C19_DepthIsSegmentsBeyondRoot ==
    /\ (last.op = "traverse" /\ \E N \in last.args.max_depth : N >= 1)
         => /\ last.ret.exc = "none"
            /\ (last.args.max_depth = {1} /\ last.args.show_hidden)
                 => YieldedSet = { x \in FullTraversal : DepthBeyond(x) <= 1 }
    /\ (last.op = "find" /\ last.args.min_depth # {})
         => /\ last.ret.exc = "none"
            /\ YieldedSet = { x \in FullTraversal :
                                \A M \in last.args.min_depth : DepthBeyond(x) >= M }

\* C20: traverse(show_hidden=False) yields no path other than the traversal
\* root whose final name starts with "."; with show_hidden=True no entry is
\* skipped for having such a name.
C20_ShowHidden ==
    last.op = "traverse"
        => /\ ~last.args.show_hidden
                => \A x \in YieldedSet : DepthBeyond(x) > 0 => Head(Path_name(x)) # "."
           /\ (last.args.show_hidden /\ last.args.max_depth = {}
                 /\ Lookup(fs, p.path.parts).mode = S_IFDIR)
                => \A loc \in DOMAIN fs :
                      (fs[loc].mode # ABSENT /\ Len(loc) > Len(p.path.parts)
                         /\ SubSeq(loc, 1, Len(p.path.parts)) = p.path.parts)
                        => \E x \in YieldedSet : x.path.parts = loc

\* C24: in a filesystem that does not change during the call, p.type is
\* DoesNotExist exactly when a stat of p that does not follow symbolic links
\* finds nothing; when it finds something, p.type is the one classification of
\* the mode it reports, so a symbolic link is reported as a symbolic link
\* whatever it points at.
C24_TypeClassifiesLstat ==
    last.op = "type"
        => LET st == StatOfP(FALSE)
           IN  /\ Missing(st) => Returned(last.ret, "DOES_NOT_EXIST")
               /\ st.err = "OK" => Returned(last.ret, identify_st_mode(st.mode))

\* C27: for every path, every state of the filesystem and every combination of
\* follow_symlinks and must_exist, is_file and is_directory called with the same
\* arguments against the same state never both return True.
C27_FileAndDirectoryExclusive ==
    (last.op = "is_file" /\ Returned(last.ret, TRUE))
        => ~Returned(Path_is_directory(fs, p, last.args.follow, last.args.must_exist), TRUE)

\* C28: every path that traverse (and walk, which builds its paths the same
\* way) yields for a physical directory, the root or a visited subdirectory,
\* carries the semantic type Directory, so its string form ends with the
\* separator.
C28_YieldedDirectoriesAreDirectories ==
    last.op = "traverse"
        => \A x \in YieldedSet :
              (os_stat(fs, x.path, TRUE).err = "OK" /\ os_stat(fs, x.path, TRUE).mode = S_IFDIR)
                => (x.sem = DIRECTORY /\ EndsWith(Path_str(x), <<Sep>>))

---------------------------------------------------------------------------
(* The vocabulary of the claims about components and hashing. *)

\* p is relative and each of its components is a plain name
PlainNames(q) ==
    /\ q.path.root = <<>>
    /\ q.path.parts # <<>>
    /\ \A i \in 1..Len(q.path.parts) : q.path.parts[i] \notin {Dot, DotDot}

\* the other operand of the comparison in `last`
OtherOfCall == Path_init(last.args.other)

\* C26: for a File-tagged path built by joining plain names n1 / ... / nk,
\* parts, and components likewise, is exactly (n1, ..., nk): one entry for
\* each segment, in order, each equal to the segment's name.
C26_PartsAreTheNames ==
    (last.op \in {"parts", "components"} /\ p.sem = FILE /\ PlainNames(p))
        => Returned(last.ret, p.path.parts)

\* C29: equality and hashing agree: p == q implies hash(p) = hash(q), also
\* for paths that differ only by "." or ".." segments that normalization
\* removes.
C29_EqualPathsHashEqual ==
    (last.op = "eq" /\ Returned(last.ret, TRUE))
        => Path_hash(p) = Path_hash(OtherOfCall)

\* C30: when another process creates or removes the entry at p while p.type
\* is being evaluated, the property still returns a PathType value and never
\* raises a not-found error.
C30_TypeSurvivesConcurrentRemoval ==
    last.op = "type" => last.ret.exc # "FileNotFoundError"

---------------------------------------------------------------------------
(* The vocabulary of the claims about creating, temporary entries and the   *)
(* atomic write.                                                            *)

\* the call in `last` is a mkdir or a touch that strict mode turns down
TurnedDown(call) ==
    /\ call.args.strict
    /\ \/ call.op = "mkdir" /\ p.sem = FILE
       \/ call.op = "touch" /\ p.sem = DIRECTORY

\* what write_text_atomic was called with, while it runs and when it is over
AtomicCall == IF last.op = "write_text_atomic" THEN last.args ELSE last

\* nothing exists at the path of the context that ended, nor below it
TemporaryGone ==
    /\ Returned(Path_exists(fs, last.args.path, TRUE, TRUE), FALSE)
    /\ \A l \in DOMAIN fs : Under(l, last.args.path.path.parts) => fs[l].mode = ABSENT

\* C21: at every point during and after write_text_atomic(data) the target
\* holds either what it held before or exactly data, never a part of it; and
\* when the replace step fails the call raises, the target still holds what
\* it held before and the temporary file no longer exists.
C21_AtomicWriteIsAllOrNothing ==
    /\ last.op \in {"write_text_atomic_running", "write_text_atomic"}
         => EntryAt(fs, p) \in {AtomicCall.prior, File(AtomicCall.data)}
    /\ (last.op = "write_text_atomic" /\ last.args.replace_failed)
         => /\ last.ret.exc # "none"
            /\ EntryAt(fs, p) = last.args.prior
            /\ EntryAt(fs, last.args.temp_path) = NoEntry

\* a call whose replace step failed has ended: it raised, the target is a
\* file that still holds the old text, no temporary file is left
C21_Witness ==
    /\ last.op = "write_text_atomic" /\ last.args.replace_failed
    /\ last.ret.exc # "none"
    /\ last.args.prior = File(Old)
    /\ EntryAt(fs, p) = File(Old)
    /\ \A name \in TempNames : Lookup(fs, << <<"T">>, name >>) = NoEntry

\* C22: write_text_atomic(data) on a target inside an existing writable
\* directory, nothing else touching the filesystem, returns without error and
\* the target then holds exactly data; the data is first written to a
\* temporary file that is a sibling of the target and that still exists when
\* the replace step runs.
C22_AtomicWriteSucceeds ==
    /\ (/\ last.op = "write_text_atomic"
        /\ p.sem = FILE
        /\ pathlib_is_dir(fs, pathlib_parent(p.path))
        /\ last.args.prior.mode \in {ABSENT, S_IFREG})
         => (last.ret.exc = "none" /\ EntryAt(fs, p) = File(last.args.data))
    /\ last.op = "write_text_atomic_running"
         => pathlib_parent(last.temp_path.path) = pathlib_parent(pathlib_absolute(p.path))
    /\ (last.op = "write_text_atomic_running" /\ last.pc = "replace")
         => EntryAt(fs, last.temp_path).mode = S_IFREG

\* C23: inside a temporary_file or temporary_directory context the yielded
\* path exists, strictly, and is_file and is_directory tell a file from a
\* directory; once the context has ended, normally or by an exception, with
\* delete=True the path and all that was made below a temporary directory
\* exist no longer, and with delete=False the path still exists.
C23_TemporaryContexts ==
    /\ last.op \in {"temporary_file", "temporary_directory"}
         => /\ Returned(Path_exists(fs, last.path, TRUE, TRUE), TRUE)
            /\ Returned(Path_is_file(fs, last.path, TRUE, FALSE), last.op = "temporary_file")
            /\ Returned(Path_is_directory(fs, last.path, TRUE, FALSE),
                        last.op = "temporary_directory")
    /\ (last.op = "exit" /\ last.args.delete) => TemporaryGone
    /\ (last.op = "exit" /\ ~last.args.delete)
         => Returned(Path_exists(fs, last.args.path, TRUE, TRUE), TRUE)

\* a temporary directory that held a file when its body raised is gone
C23_Witness ==
    /\ last.op = "exit" /\ last.args.kind = "temporary_directory"
    /\ last.args.delete /\ last.args.raised
    /\ HasChildren(last.args.held, last.args.path.path.parts)
    /\ TemporaryGone

\* C25: the documented kind of error reaches the caller: mkdir(strict=True)
\* on a File-tagged path raises NotADirectoryError, touch(strict=True) on a
\* Directory-tagged path raises IsADirectoryError, mkdir and touch with
\* exist_ok=False on an existing path raise FileExistsError; and in each case
\* nothing is created or changed in the filesystem.
C25_DocumentedErrorKinds ==
    [][ (last = Idle /\ last'.op \in {"mkdir", "touch"})
          => /\ (last'.op = "mkdir" /\ TurnedDown(last'))
                  => (last'.ret.exc = "NotADirectoryError" /\ fs' = fs)
             /\ (last'.op = "touch" /\ TurnedDown(last'))
                  => (last'.ret.exc = "IsADirectoryError" /\ fs' = fs)
             /\ (/\ ~TurnedDown(last')
                 /\ ~last'.args.exist_ok
                 /\ os_stat(fs, p.path, FALSE).err = "OK")
                  => (last'.ret.exc = "FileExistsError" /\ fs' = fs) ]_vars

=============================================================================
